---- MODULE Spec2Model ----
(***************************************************************************)
(* Model of refcard.py (robmcmullen/6502refcard): gen_csv builds the       *)
(* mnemonic -> addressing mode -> record index d from the raw opcode table *)
(* and create_csv / create_relative_csv render it into five CSV views.     *)
(*                                                                         *)
(* Python strings that are rendered (mnemonics, records, CSV lines) are    *)
(* sequences of one-character strings, so that formatting, splitting and   *)
(* comma counting are computed and not assumed.  Addressing-mode names are *)
(* only ever used as dictionary keys and stay TLA+ strings.                *)
(***************************************************************************)
EXTENDS Integers, Sequences, FiniteSets, TLC

VARIABLES cpu_name, allow_undocumented, table, todo, d,
          main_csv, compact_csv, implicit_csv, list_csv, relative_csv,
          stdout, pc

vars == <<cpu_name, allow_undocumented, table, todo, d,
          main_csv, compact_csv, implicit_csv, list_csv, relative_csv,
          stdout, pc>>

(***************************************************************************)
(* Bounds of the model.                                                    *)
(***************************************************************************)
\* largest number of opcode slots in a raw table
MaxSlots == 2

(***************************************************************************)
(* Program constants (refcard.py, module level).                           *)
(***************************************************************************)
flag_undoc == 128

\* address_mode_order["6502"]['map']
mode_map == ("accumulator" :> "implicit")

\* address_mode_order["6502"]['order']
order ==
  << "implicit", "immediate", "zeropage", "zeropagex", "zeropagey",
     "absolute", "absolutex", "absolutey", "indirect", "indirectx",
     "indirecty" >>

cycles ==
  <<
    7, 6, 0, 0, 0, 3, 5, 0, 3, 2, 2, 0, 0, 4, 6, 0,
    2, 5, 0, 0, 0, 4, 6, 0, 2, 4, 0, 0, 0, 4, 7, 0,
    6, 6, 0, 0, 3, 3, 5, 0, 4, 2, 2, 0, 4, 4, 6, 0,
    2, 5, 0, 0, 0, 4, 6, 0, 2, 4, 0, 0, 0, 4, 7, 0,
    6, 6, 0, 0, 0, 3, 5, 0, 3, 2, 2, 0, 3, 4, 6, 0,
    2, 5, 0, 0, 0, 4, 6, 0, 2, 4, 0, 0, 0, 4, 7, 0,
    6, 6, 0, 0, 0, 3, 5, 0, 4, 2, 2, 0, 5, 4, 6, 0,
    2, 5, 0, 0, 0, 4, 6, 0, 2, 4, 0, 0, 0, 4, 7, 0,
    0, 6, 0, 0, 3, 3, 3, 0, 2, 0, 2, 0, 4, 4, 4, 0,
    2, 6, 0, 0, 4, 4, 4, 0, 2, 5, 2, 0, 0, 5, 0, 0,
    2, 6, 2, 0, 3, 3, 3, 0, 2, 2, 2, 0, 4, 4, 4, 0,
    2, 5, 0, 0, 4, 4, 4, 0, 2, 4, 2, 0, 4, 4, 4, 0,
    2, 6, 0, 0, 3, 3, 5, 0, 2, 2, 2, 0, 4, 4, 3, 0,
    2, 5, 0, 0, 0, 4, 6, 0, 2, 4, 0, 0, 0, 4, 7, 0,
    2, 6, 0, 0, 3, 3, 5, 0, 2, 2, 2, 0, 4, 4, 6, 0,
    2, 5, 0, 0, 0, 4, 6, 0, 2, 4, 0, 0, 0, 4, 7, 0
  >>

extra_cycles ==
  <<
    0, 0, 0, 0, 0, 0, 0, 0, 0, 0, 0, 0, 0, 0, 0, 0,
    2, 1, 0, 0, 0, 0, 0, 0, 0, 1, 0, 0, 0, 1, 0, 0,
    0, 0, 0, 0, 0, 0, 0, 0, 0, 0, 0, 0, 0, 0, 0, 0,
    2, 1, 0, 0, 0, 0, 0, 0, 0, 1, 0, 0, 0, 1, 0, 0,
    0, 0, 0, 0, 0, 0, 0, 0, 0, 0, 0, 0, 0, 0, 0, 0,
    2, 1, 0, 0, 0, 0, 0, 0, 0, 1, 0, 0, 0, 1, 0, 0,
    0, 0, 0, 0, 0, 0, 0, 0, 0, 0, 0, 0, 0, 0, 0, 0,
    2, 1, 0, 0, 0, 0, 0, 0, 0, 1, 0, 0, 0, 1, 0, 0,
    0, 0, 0, 0, 0, 0, 0, 0, 0, 0, 0, 0, 0, 0, 0, 0,
    2, 0, 0, 0, 0, 0, 0, 0, 0, 0, 0, 0, 0, 0, 0, 0,
    0, 0, 0, 0, 0, 0, 0, 0, 0, 0, 0, 0, 0, 0, 0, 0,
    2, 1, 0, 0, 0, 0, 0, 0, 0, 1, 0, 0, 1, 1, 1, 0,
    0, 0, 0, 0, 0, 0, 0, 0, 0, 0, 0, 0, 0, 0, 0, 0,
    2, 1, 0, 0, 0, 0, 0, 0, 0, 1, 0, 0, 0, 1, 0, 0,
    0, 0, 0, 0, 0, 0, 0, 0, 0, 0, 0, 0, 0, 0, 0, 0,
    2, 1, 0, 0, 0, 0, 0, 0, 0, 1, 0, 0, 0, 1, 0, 0
  >>

status_byte_header == <<"N", ",", "V", ",", "-", ",", "B", ",", "D", ",", "I", ",", "Z", ",", "C">>

status_byte_empty == <<",", ",", ",", ",", ",", ",", ",">>

status_byte ==
     (<<"A", "D", "C">> :> <<"N", ",", "V", ",", " ", ",", " ", ",", " ", ",", " ", ",", "Z", ",", "C">>) @@
     (<<"A", "N", "D">> :> <<"N", ",", " ", ",", " ", ",", " ", ",", " ", ",", " ", ",", "Z", ",", " ">>) @@
     (<<"A", "S", "L">> :> <<"N", ",", " ", ",", " ", ",", " ", ",", " ", ",", " ", ",", "Z", ",", "C">>) @@
     (<<"B", "I", "T">> :> <<"N", ",", "V", ",", " ", ",", " ", ",", " ", ",", " ", ",", "Z", ",", " ">>) @@
     (<<"B", "R", "K">> :> <<" ", ",", " ", ",", " ", ",", "1", ",", " ", ",", "1", ",", " ", ",", " ">>) @@
     (<<"C", "L", "C">> :> <<" ", ",", " ", ",", " ", ",", " ", ",", " ", ",", " ", ",", " ", ",", "0">>) @@
     (<<"C", "L", "D">> :> <<" ", ",", " ", ",", " ", ",", " ", ",", "0", ",", " ", ",", " ", ",", " ">>) @@
     (<<"C", "L", "I">> :> <<" ", ",", " ", ",", " ", ",", " ", ",", " ", ",", "0", ",", " ", ",", " ">>) @@
     (<<"C", "L", "V">> :> <<" ", ",", "0", ",", " ", ",", " ", ",", " ", ",", " ", ",", " ", ",", " ">>) @@
     (<<"C", "M", "P">> :> <<"N", ",", " ", ",", " ", ",", " ", ",", " ", ",", " ", ",", "Z", ",", "C">>) @@
     (<<"C", "P", "X">> :> <<"N", ",", " ", ",", " ", ",", " ", ",", " ", ",", " ", ",", "Z", ",", "C">>) @@
     (<<"C", "P", "Y">> :> <<"N", ",", " ", ",", " ", ",", " ", ",", " ", ",", " ", ",", "Z", ",", "C">>) @@
     (<<"D", "E", "C">> :> <<"N", ",", " ", ",", " ", ",", " ", ",", " ", ",", " ", ",", "Z", ",", " ">>) @@
     (<<"D", "E", "X">> :> <<"N", ",", " ", ",", " ", ",", " ", ",", " ", ",", " ", ",", "Z", ",", " ">>) @@
     (<<"D", "E", "Y">> :> <<"N", ",", " ", ",", " ", ",", " ", ",", " ", ",", " ", ",", "Z", ",", " ">>) @@
     (<<"E", "O", "R">> :> <<"N", ",", " ", ",", " ", ",", " ", ",", " ", ",", " ", ",", "Z", ",", " ">>) @@
     (<<"I", "N", "C">> :> <<"N", ",", " ", ",", " ", ",", " ", ",", " ", ",", " ", ",", "Z", ",", " ">>) @@
     (<<"I", "N", "X">> :> <<"N", ",", " ", ",", " ", ",", " ", ",", " ", ",", " ", ",", "Z", ",", " ">>) @@
     (<<"I", "N", "Y">> :> <<"N", ",", " ", ",", " ", ",", " ", ",", " ", ",", " ", ",", "Z", ",", " ">>) @@
     (<<"J", "M", "P">> :> <<" ", ",", " ", ",", " ", ",", " ", ",", " ", ",", " ", ",", " ", ",", " ">>) @@
     (<<"J", "S", "R">> :> <<" ", ",", " ", ",", " ", ",", " ", ",", " ", ",", " ", ",", " ", ",", " ">>) @@
     (<<"L", "D", "A">> :> <<"N", ",", " ", ",", " ", ",", " ", ",", " ", ",", " ", ",", "Z", ",", " ">>) @@
     (<<"L", "D", "X">> :> <<"N", ",", " ", ",", " ", ",", " ", ",", " ", ",", " ", ",", "Z", ",", " ">>) @@
     (<<"L", "D", "Y">> :> <<"N", ",", " ", ",", " ", ",", " ", ",", " ", ",", " ", ",", "Z", ",", " ">>) @@
     (<<"L", "S", "R">> :> <<"N", ",", " ", ",", " ", ",", " ", ",", " ", ",", " ", ",", "Z", ",", "C">>) @@
     (<<"N", "O", "P">> :> <<" ", ",", " ", ",", " ", ",", " ", ",", " ", ",", " ", ",", " ", ",", " ">>) @@
     (<<"O", "R", "A">> :> <<"N", ",", " ", ",", " ", ",", " ", ",", " ", ",", " ", ",", "Z", ",", " ">>) @@
     (<<"P", "H", "A">> :> <<" ", ",", " ", ",", " ", ",", " ", ",", " ", ",", " ", ",", " ", ",", " ">>) @@
     (<<"P", "H", "P">> :> <<" ", ",", " ", ",", " ", ",", " ", ",", " ", ",", " ", ",", " ", ",", " ">>) @@
     (<<"P", "L", "A">> :> <<"N", ",", " ", ",", " ", ",", " ", ",", " ", ",", " ", ",", "Z", ",", " ">>) @@
     (<<"P", "L", "P">> :> <<"N", ",", "V", ",", " ", ",", " ", ",", "D", ",", "I", ",", "Z", ",", "C">>) @@
     (<<"R", "O", "L">> :> <<"N", ",", " ", ",", " ", ",", " ", ",", " ", ",", " ", ",", "Z", ",", "C">>) @@
     (<<"R", "O", "R">> :> <<"N", ",", " ", ",", " ", ",", " ", ",", " ", ",", " ", ",", "Z", ",", "C">>) @@
     (<<"R", "T", "I">> :> <<"N", ",", "V", ",", " ", ",", " ", ",", "D", ",", "I", ",", "Z", ",", "C">>) @@
     (<<"R", "T", "S">> :> <<" ", ",", " ", ",", " ", ",", " ", ",", " ", ",", " ", ",", " ", ",", " ">>) @@
     (<<"S", "B", "C">> :> <<"N", ",", "V", ",", " ", ",", " ", ",", " ", ",", " ", ",", "Z", ",", "C">>) @@
     (<<"S", "E", "C">> :> <<" ", ",", " ", ",", " ", ",", " ", ",", " ", ",", " ", ",", " ", ",", "1">>) @@
     (<<"S", "E", "D">> :> <<" ", ",", " ", ",", " ", ",", " ", ",", "1", ",", " ", ",", " ", ",", " ">>) @@
     (<<"S", "E", "I">> :> <<" ", ",", " ", ",", " ", ",", " ", ",", " ", ",", "1", ",", " ", ",", " ">>) @@
     (<<"S", "T", "A">> :> <<" ", ",", " ", ",", " ", ",", " ", ",", " ", ",", " ", ",", " ", ",", " ">>) @@
     (<<"S", "T", "X">> :> <<" ", ",", " ", ",", " ", ",", " ", ",", " ", ",", " ", ",", " ", ",", " ">>) @@
     (<<"S", "T", "Y">> :> <<" ", ",", " ", ",", " ", ",", " ", ",", " ", ",", " ", ",", " ", ",", " ">>) @@
     (<<"T", "A", "X">> :> <<"N", ",", " ", ",", " ", ",", " ", ",", " ", ",", " ", ",", "Z", ",", " ">>) @@
     (<<"T", "A", "Y">> :> <<"N", ",", " ", ",", " ", ",", " ", ",", " ", ",", " ", ",", "Z", ",", " ">>) @@
     (<<"T", "S", "X">> :> <<"N", ",", " ", ",", " ", ",", " ", ",", " ", ",", " ", ",", "Z", ",", " ">>) @@
     (<<"T", "X", "A">> :> <<"N", ",", " ", ",", " ", ",", " ", ",", " ", ",", " ", ",", "Z", ",", " ">>) @@
     (<<"T", "X", "S">> :> <<" ", ",", " ", ",", " ", ",", " ", ",", " ", ",", " ", ",", " ", ",", " ">>) @@
     (<<"T", "Y", "A">> :> <<"N", ",", " ", ",", " ", ",", " ", ",", " ", ",", " ", ",", "Z", ",", " ">>)

title_modes ==
     ("implicit" :> <<"i", "m", "p", "l", "i", "c", "i", "t">>) @@
     ("immediate" :> <<"#", "n", "n">>) @@
     ("zeropage" :> <<"$", "n", "n">>) @@
     ("zeropagex" :> <<"$", "n", "n", ",", "X">>) @@
     ("zeropagey" :> <<"$", "n", "n", ",", "Y">>) @@
     ("absolute" :> <<"$", "n", "n", "n", "n">>) @@
     ("absolutex" :> <<"$", "n", "n", "n", "n", ",", "X">>) @@
     ("absolutey" :> <<"$", "n", "n", "n", "n", ",", "Y">>) @@
     ("indirect" :> <<"(", "$", "n", "n", "n", "n", ")">>) @@
     ("indirectx" :> <<"(", "$", "n", "n", ",", "X", ")">>) @@
     ("indirecty" :> <<"(", "$", "n", "n", ")", ",", "Y">>) @@
     ("relative" :> <<>>)
\* operands = dict(title_modes); operands.update({'implicit': ''})
operands == [m \in DOMAIN title_modes |-> IF m = "implicit" THEN <<>> ELSE title_modes[m]]

\* the keys of address_mode_order: the CPUs refcard.py has a catalog for
address_mode_order_keys == {"6502"}

(***************************************************************************)
(* The external opcode-table provider (cputables.py, generated by          *)
(* cpugen.py, not part of refcard.py): the CPUs it registers and the       *)
(* shapes a raw table entry  opcode -> (num_bytes, mnemonic, mode[, flag]) *)
(* can take.                                                               *)
(***************************************************************************)
\* cputables.processors.keys()
processors == {"6502", "6809"}

\* the CPU identifiers a caller may pass (--cpu)
CpuNames == {"6502", "6809", "z80"}

\* opcodes of the raw tables: 0x02 (cycles 0), 0x0a (cycles 2), 0x10 (cycles 2, extra 2)
Opcodes == {2, 10, 16}

\* (num_bytes, mnemonic, mode_name) of a raw table entry; mnemonics in mixed case
Forms ==
  { <<1, <<"a", "s", "l">>, "accumulator">>,
    <<1, <<"A", "S", "L">>, "implicit">>,
    <<2, <<"a", "s", "l">>, "immediate">>,
    <<2, <<"b", "p", "l">>, "relative">>,
    <<1, <<"b", "p", "l">>, "implicit">>,
    <<3, <<"B", "p", "l">>, "absolute">>,
    <<2, <<"b", "p", "l">>, "zeropagerelative">> }

\* flag fields of 4-field entries: a relative entry carries another flag bit (1),
\* an undocumented entry the bit 128
Flags(f) == IF f[3] = "relative" THEN {1, 129} ELSE {128}

\* entries that are neither 3- nor 4-field tuples
Malformed == { <<1, <<"a", "s", "l">>>>, <<1, <<"a", "s", "l">>, "implicit", 0, 0>> }

\* the 4-field entries
FlaggedEntries == UNION { { Append(f, flag) : flag \in Flags(f) } : f \in Forms }

\* the entries a slot of a raw table can hold
OpTables == Forms \cup FlaggedEntries \cup Malformed

\* the raw tables: at most MaxSlots opcode slots
RawTables ==
  UNION { [S -> OpTables] : S \in { T \in SUBSET Opcodes : Cardinality(T) <= MaxSlots } }

(***************************************************************************)
(* Python string operations, on sequences of characters.                   *)
(***************************************************************************)
LowerToUpper ==
  ("a" :> "A") @@ ("b" :> "B") @@ ("c" :> "C") @@ ("d" :> "D") @@ ("e" :> "E") @@
  ("f" :> "F") @@ ("g" :> "G") @@ ("h" :> "H") @@ ("i" :> "I") @@ ("j" :> "J") @@
  ("k" :> "K") @@ ("l" :> "L") @@ ("m" :> "M") @@ ("n" :> "N") @@ ("o" :> "O") @@
  ("p" :> "P") @@ ("q" :> "Q") @@ ("r" :> "R") @@ ("s" :> "S") @@ ("t" :> "T") @@
  ("u" :> "U") @@ ("v" :> "V") @@ ("w" :> "W") @@ ("x" :> "X") @@ ("y" :> "Y") @@
  ("z" :> "Z")

\* str.upper()
upper(s) ==
  [i \in 1..Len(s) |-> IF s[i] \in DOMAIN LowerToUpper THEN LowerToUpper[s[i]] ELSE s[i]]

HexChars == <<"0", "1", "2", "3", "4", "5", "6", "7", "8", "9", "a", "b", "c", "d", "e", "f">>

RECURSIVE HexDigits(_)
HexDigits(n) ==
  IF n < 16 THEN <<HexChars[n + 1]>>
  ELSE HexDigits(n \div 16) \o <<HexChars[(n % 16) + 1]>>

\* "%02x" % n
Fmt02x(n) ==
  LET h == HexDigits(n) IN IF Len(h) < 2 THEN <<"0">> \o h ELSE h

RECURSIVE DecDigits(_)
DecDigits(n) ==
  IF n < 10 THEN <<HexChars[n + 1]>>
  ELSE DecDigits(n \div 10) \o <<HexChars[(n % 10) + 1]>>

\* "%d" % n, n >= 0
FmtD(n) == DecDigits(n)

\* characters in code point order (the ones mnemonic keys are made of)
CodePoints ==
  << "0", "1", "2", "3", "4", "5", "6", "7", "8", "9", "?",
     "A", "B", "C", "D", "E", "F", "G", "H", "I", "J", "K", "L", "M",
     "N", "O", "P", "Q", "R", "S", "T", "U", "V", "W", "X", "Y", "Z" >>

Ord(c) == CHOOSE i \in 1..Len(CodePoints) : CodePoints[i] = c

\* a < b for Python strings
RECURSIVE StrLess(_, _)
StrLess(a, b) ==
  IF b = <<>> THEN FALSE
  ELSE IF a = <<>> THEN TRUE
  ELSE IF a[1] = b[1] THEN StrLess(Tail(a), Tail(b))
  ELSE Ord(a[1]) < Ord(b[1])

\* mutant of sorted: descending order
RECURSIVE sorted_Descending(_)
sorted_Descending(S) ==
  IF S = {} THEN <<>>
  ELSE LET m == CHOOSE x \in S : \A y \in S \ {x} : StrLess(y, x)
       IN <<m>> \o sorted_Descending(S \ {m})

\* sorted(keys)
RECURSIVE sorted(_)
sorted(S) ==
  IF S = {} THEN <<>>
  ELSE LET m == CHOOSE x \in S : \A y \in S \ {x} : StrLess(x, y)
       IN <<m>> \o sorted(S \ {m})

\* s.split(",", 1)[0]
RECURSIVE SplitFirst(_)
SplitFirst(s) ==
  IF s = <<>> \/ s[1] = "," THEN <<>> ELSE <<s[1]>> \o SplitFirst(Tail(s))

\* flag & mask on non-negative integers
RECURSIVE BitAnd(_, _)
BitAnd(a, b) ==
  IF a = 0 \/ b = 0 THEN 0
  ELSE (a % 2) * (b % 2) + 2 * BitAnd(a \div 2, b \div 2)

(***************************************************************************)
(* gen_csv: the build loop over the raw table.                             *)
(***************************************************************************)
\* mutant of Unpacks: the first three fields taken from any longer entry
Unpacks_AtLeastThree(optable) == Len(optable) >= 3

\* try: 4-field unpack; except ValueError: 3-field unpack, flag = 0
Unpacks(optable) == Len(optable) \in {3, 4}

num_bytes_of(optable) == optable[1]
mnemonic_of(optable) == optable[2]
mode_name_of(optable) == optable[3]
flag_of(optable) == IF Len(optable) = 4 THEN optable[4] ELSE 0

\* mutant of IsIncluded: the flag compared with flag_undoc instead of masked
IsIncluded_Equal(allow, flag) == allow \/ flag # flag_undoc

\* if allow_undocumented or not flag & flag_undoc
IsIncluded(allow, flag) == allow \/ BitAnd(flag, flag_undoc) = 0

\* lookup['map'].get(mode_name, mode_name)
MapMode(mode_name) ==
  IF mode_name \in DOMAIN mode_map THEN mode_map[mode_name] ELSE mode_name

\* mutant of ExtraMark: the marker taken from the base cycle table
ExtraMark_Cycles(opcode) == IF cycles[opcode + 1] > 0 THEN <<"+">> ELSE <<>>

\* "+" if lookup['extra_cycles'][opcode] > 0 else ""
ExtraMark(opcode) == IF extra_cycles[opcode + 1] > 0 THEN <<"+">> ELSE <<>>

\* "%02x,%d%s,%d," % (opcode, cycles[opcode], mark, num_bytes)
FormatRecord(opcode, num_bytes) ==
  Fmt02x(opcode) \o <<",">> \o FmtD(cycles[opcode + 1]) \o ExtraMark(opcode)
    \o <<",">> \o FmtD(num_bytes) \o <<",">>

\* d[key][mode_name] = rec  (d is a defaultdict(dict))
DictSet(dd, key, mode_name, rec) ==
  LET old == IF key \in DOMAIN dd THEN dd[key] ELSE <<>>
      new == [m \in DOMAIN old \cup {mode_name} |-> IF m = mode_name THEN rec ELSE old[m]]
  IN [k \in DOMAIN dd \cup {key} |-> IF k = key THEN new ELSE dd[k]]

(***************************************************************************)
(* create_csv: the per-mnemonic lines.                                     *)
(***************************************************************************)
\* lookup['status_byte'].get(mnemonic, lookup['status_byte_empty'])
StatusByteGet(mnemonic) ==
  IF mnemonic \in DOMAIN status_byte THEN status_byte[mnemonic] ELSE status_byte_empty

\* "\"%s %s\",%s,%s" % (mnemonic, operands[mode_name], status, mode_info[mode_name])
ListRow(mnemonic, mode_info, mode_name) ==
  <<"\"">> \o mnemonic \o <<" ">> \o operands[mode_name] \o <<"\"", ",">>
    \o StatusByteGet(mnemonic) \o <<",">> \o mode_info[mode_name]

\* "\"%s %s\",,," % (mnemonic, operands[mode_name])
LabelGroup(mnemonic, mode_name) ==
  <<"\"">> \o mnemonic \o <<" ">> \o operands[mode_name] \o <<"\"", ",", ",", ",">>

\* mutant of AbsentGroup: one comma short
AbsentGroup_Two == <<",", ",">>

\* ",,,": the group of a mode the mnemonic does not have
AbsentGroup == <<",", ",", ",">>

\* the lines and counters before the loop over the modes
LinesInit(mnemonic) ==
  LET first == mnemonic \o <<",">> \o StatusByteGet(mnemonic) \o <<",">>
  IN [ first_line |-> first,
       implicit_line |-> first,
       second_line |-> <<",">> \o status_byte_empty \o <<",">>,
       compact_line |-> first,
       list_rows |-> <<>>,
       found_mode |-> 0,
       found_implicit |-> FALSE ]

\* mutant of ModeStep: an absent mode adds no blank group to the compact line
ModeStep_NoCompactPad(mnemonic, mode_info, acc, mode_name) ==
  IF mode_name \in DOMAIN mode_info
  THEN [ first_line |-> acc.first_line \o LabelGroup(mnemonic, mode_name),
         second_line |-> acc.second_line \o mode_info[mode_name],
         implicit_line |-> acc.implicit_line \o mode_info[mode_name],
         compact_line |-> acc.compact_line \o mode_info[mode_name],
         list_rows |-> Append(acc.list_rows, ListRow(mnemonic, mode_info, mode_name)),
         found_mode |-> acc.found_mode + 1,
         found_implicit |-> acc.found_implicit \/ mode_name = "implicit" ]
  ELSE [ acc EXCEPT !.first_line = @ \o AbsentGroup,
                    !.second_line = @ \o AbsentGroup ]

\* one iteration of  for mode_name in order
\* (header += ... on line 201 changes a local that is not read again)
ModeStep(mnemonic, mode_info, acc, mode_name) ==
  IF mode_name \in DOMAIN mode_info
  THEN [ first_line |-> acc.first_line \o LabelGroup(mnemonic, mode_name),
         second_line |-> acc.second_line \o mode_info[mode_name],
         implicit_line |-> acc.implicit_line \o mode_info[mode_name],
         compact_line |-> acc.compact_line \o mode_info[mode_name],
         list_rows |-> Append(acc.list_rows, ListRow(mnemonic, mode_info, mode_name)),
         found_mode |-> acc.found_mode + 1,
         found_implicit |-> acc.found_implicit \/ mode_name = "implicit" ]
  ELSE [ acc EXCEPT !.first_line = @ \o AbsentGroup,
                    !.second_line = @ \o AbsentGroup,
                    !.compact_line = @ \o AbsentGroup ]

RECURSIVE ModeLoop(_, _, _, _)
ModeLoop(mnemonic, mode_info, acc, k) ==
  IF k > Len(order) THEN acc
  ELSE ModeLoop(mnemonic, mode_info, ModeStep(mnemonic, mode_info, acc, order[k]), k + 1)

\* mutant of RelativeListRows: the relative entry left out of the flat list
RelativeListRows_None(mnemonic, mode_info) == <<>>

\* if 'relative' in mode_info: list_csv.append(...)
RelativeListRows(mnemonic, mode_info) ==
  IF "relative" \in DOMAIN mode_info
  THEN <<ListRow(mnemonic, mode_info, "relative")>> ELSE <<>>

\* mutant of HasMatrixMode: the guard dropped
HasMatrixMode_Always(found_mode) == TRUE

\* if found_mode:
HasMatrixMode(found_mode) == found_mode # 0

\* mutant of IsImplicitOnly: the mode count not tested
IsImplicitOnly_NoCount(found_implicit, found_mode) == found_implicit

\* if found_implicit and found_mode == 1:
IsImplicitOnly(found_implicit, found_mode) == found_implicit /\ found_mode = 1

\* the body of  for mnemonic in sorted(d.keys())  on the four lists
MnemonicStep(dd, lists, mnemonic) ==
  LET mode_info == dd[mnemonic]
      acc == ModeLoop(mnemonic, mode_info, LinesInit(mnemonic), 1)
      list2 == lists.list_csv \o acc.list_rows \o RelativeListRows(mnemonic, mode_info)
  IN IF ~HasMatrixMode(acc.found_mode)
     THEN [lists EXCEPT !.list_csv = list2]
     ELSE IF IsImplicitOnly(acc.found_implicit, acc.found_mode)
     THEN [lists EXCEPT !.list_csv = list2,
                        !.implicit_csv = Append(@, acc.implicit_line)]
     ELSE [lists EXCEPT !.list_csv = list2,
                        !.main_csv = @ \o <<acc.first_line, acc.second_line>>,
                        !.compact_csv = Append(@, acc.compact_line)]

RECURSIVE MnemonicLoop(_, _, _, _)
MnemonicLoop(dd, lists, keys, k) ==
  IF k > Len(keys) THEN lists
  ELSE MnemonicLoop(dd, MnemonicStep(dd, lists, keys[k]), keys, k + 1)

\* main_header / compact_header: "Opcode,%s," then "\"%s\",,," per mode of the order
RECURSIVE TitleGroups(_)
TitleGroups(k) ==
  IF k > Len(order) THEN <<>>
  ELSE <<"\"">> \o title_modes[order[k]] \o <<"\"", ",", ",", ",">> \o TitleGroups(k + 1)

OpcodeWord == <<"O", "p", "c", "o", "d", "e">>

MatrixHeader == OpcodeWord \o <<",">> \o status_byte_header \o <<",">> \o TitleGroups(1)

\* header + "Hex,C,B"
ImplicitHeader ==
  OpcodeWord \o <<",">> \o status_byte_header \o <<",">>
    \o <<"H", "e", "x", ",", "C", ",", "B">>

\* the four lists create_csv has built when its loop ends
BuildLists(dd) ==
  MnemonicLoop(dd,
               [ main_csv |-> <<MatrixHeader>>,
                 compact_csv |-> <<MatrixHeader>>,
                 implicit_csv |-> <<ImplicitHeader>>,
                 list_csv |-> <<>> ],
               sorted(DOMAIN dd), 1)

\* print("\n".join(lines)): the lines written; an empty list writes one empty line
Printed(lines) == IF lines = <<>> THEN << <<>> >> ELSE lines

\* mutant of PrintLists: the flat list printed before the implicit-only table
PrintLists_ListFirst(lists) ==
  Printed(lists.main_csv) \o Printed(lists.compact_csv)
    \o Printed(lists.list_csv) \o Printed(lists.implicit_csv)

\* the four print calls that end create_csv
PrintLists(lists) ==
  Printed(lists.main_csv) \o Printed(lists.compact_csv)
    \o Printed(lists.implicit_csv) \o Printed(lists.list_csv)

(***************************************************************************)
(* create_relative_csv                                                     *)
(***************************************************************************)
\* header = "Opcode,Hex,,N,T,P"
RelativeHeader == OpcodeWord \o <<",", "H", "e", "x", ",", ",", "N", ",", "T", ",", "P">>

\* mutant of RelativeOpcodeField: the part after the first comma taken
RelativeOpcodeField_Rest(rec) == SubSeq(rec, Len(SplitFirst(rec)) + 2, Len(rec))

\* opcode, _ = mode_info['relative'].split(",", 1)
RelativeOpcodeField(rec) == SplitFirst(rec)

\* mutant of RelativeRow: the empty third column left out
RelativeRow_FiveColumns(mnemonic, opcode) ==
  mnemonic \o <<",">> \o opcode \o <<",", "2", ",", "3", ",", "4">>

\* "%s,%s,,2,3,4" % (mnemonic, opcode)
RelativeRow(mnemonic, opcode) ==
  mnemonic \o <<",">> \o opcode \o <<",", ",", "2", ",", "3", ",", "4">>

RECURSIVE RelativeLoop(_, _, _, _)
RelativeLoop(dd, lines, keys, k) ==
  IF k > Len(keys) THEN lines
  ELSE LET mode_info == dd[keys[k]]
       IN RelativeLoop(dd,
            IF "relative" \in DOMAIN mode_info
            THEN Append(lines, RelativeRow(keys[k], RelativeOpcodeField(mode_info["relative"])))
            ELSE lines,
            keys, k + 1)

RelativeLines(dd) == RelativeLoop(dd, <<RelativeHeader>>, sorted(DOMAIN dd), 1)

(***************************************************************************)
(* The state machine: one run of gen_csv(cpu_name, allow_undocumented).    *)
(***************************************************************************)
Init ==
  /\ cpu_name \in CpuNames
  /\ allow_undocumented \in BOOLEAN
  /\ table \in RawTables
  \* the table of a CPU without a catalog is never read
  /\ (cpu_name # "6502") => (table = <<>>)
  /\ todo = {}
  /\ d = <<>>
  /\ main_csv = <<>>
  /\ compact_csv = <<>>
  /\ implicit_csv = <<>>
  /\ list_csv = <<>>
  /\ relative_csv = <<>>
  /\ stdout = <<>>
  /\ pc = "gen_csv"

\* mutant of CpuKnown: only the opcode table looked up
CpuKnown_TableOnly(name) == name \in processors

\* both lookups of gen_csv find name
CpuKnown(name) == name \in processors /\ name \in address_mode_order_keys

\* cpu = cputables.processors[cpu_name]; lookup = address_mode_order[cpu_name]
LookupCpu ==
  /\ pc = "gen_csv"
  /\ CpuKnown(cpu_name)
  /\ todo' = DOMAIN table
  /\ pc' = "build"
  /\ UNCHANGED <<cpu_name, allow_undocumented, table, d, main_csv, compact_csv,
                 implicit_csv, list_csv, relative_csv, stdout>>

\* either lookup raises KeyError
UnknownCpu ==
  /\ pc = "gen_csv"
  /\ ~CpuKnown(cpu_name)
  /\ pc' = "KeyError"
  /\ UNCHANGED <<cpu_name, allow_undocumented, table, todo, d, main_csv, compact_csv,
                 implicit_csv, list_csv, relative_csv, stdout>>

\* one iteration of  for opcode, optable in table.items(), entry stored in d
BuildInclude(opcode) ==
  /\ pc = "build"
  /\ opcode \in todo
  /\ Unpacks(table[opcode])
  /\ IsIncluded(allow_undocumented, flag_of(table[opcode]))
  /\ d' = DictSet(d, upper(mnemonic_of(table[opcode])),
                  MapMode(mode_name_of(table[opcode])),
                  FormatRecord(opcode, num_bytes_of(table[opcode])))
  /\ todo' = todo \ {opcode}
  /\ UNCHANGED <<cpu_name, allow_undocumented, table, main_csv, compact_csv,
                 implicit_csv, list_csv, relative_csv, stdout, pc>>

\* one iteration, undocumented entry skipped
BuildSkip(opcode) ==
  /\ pc = "build"
  /\ opcode \in todo
  /\ Unpacks(table[opcode])
  /\ ~IsIncluded(allow_undocumented, flag_of(table[opcode]))
  /\ todo' = todo \ {opcode}
  /\ UNCHANGED <<cpu_name, allow_undocumented, table, d, main_csv, compact_csv,
                 implicit_csv, list_csv, relative_csv, stdout, pc>>

\* one iteration, the entry unpacks neither way: ValueError leaves gen_csv
BuildMalformed(opcode) ==
  /\ pc = "build"
  /\ opcode \in todo
  /\ ~Unpacks(table[opcode])
  /\ pc' = "ValueError"
  /\ UNCHANGED <<cpu_name, allow_undocumented, table, todo, d, main_csv, compact_csv,
                 implicit_csv, list_csv, relative_csv, stdout>>

\* create_csv(d, lookup, lookup['order']): builds the four lists and prints them
CreateCsv ==
  /\ pc = "build"
  /\ todo = {}
  /\ LET lists == BuildLists(d)
     IN /\ main_csv' = lists.main_csv
        /\ compact_csv' = lists.compact_csv
        /\ implicit_csv' = lists.implicit_csv
        /\ list_csv' = lists.list_csv
        /\ stdout' = stdout \o PrintLists(lists)
  /\ pc' = "create_relative_csv"
  /\ UNCHANGED <<cpu_name, allow_undocumented, table, todo, d, relative_csv>>

\* create_relative_csv(d, lookup)
CreateRelativeCsv ==
  /\ pc = "create_relative_csv"
  /\ relative_csv' = RelativeLines(d)
  /\ stdout' = stdout \o Printed(RelativeLines(d))
  /\ pc' = "done"
  /\ UNCHANGED <<cpu_name, allow_undocumented, table, todo, d, main_csv, compact_csv,
                 implicit_csv, list_csv>>

Next ==
  \/ LookupCpu
  \/ UnknownCpu
  \/ \E opcode \in Opcodes : BuildInclude(opcode)
  \/ \E opcode \in Opcodes : BuildSkip(opcode)
  \/ \E opcode \in Opcodes : BuildMalformed(opcode)
  \/ CreateCsv
  \/ CreateRelativeCsv

Spec == Init /\ [][Next]_vars

(***************************************************************************)
(* Reading the rendered text back: CSV fields and numbers.                 *)
(***************************************************************************)
\* the position of the first comma of s at or after i, Len(s) + 1 when there is none
NextComma(s, i) ==
  CHOOSE n \in i..(Len(s) + 1) :
    /\ n = Len(s) + 1 \/ s[n] = ","
    /\ \A j \in i..(n - 1) : s[j] # ","

\* s.split(","), the fields from position i on
RECURSIVE FieldsFrom(_, _)
FieldsFrom(s, i) ==
  LET n == NextComma(s, i)
  IN IF n > Len(s) THEN << SubSeq(s, i, Len(s)) >>
     ELSE << SubSeq(s, i, n - 1) >> \o FieldsFrom(s, n + 1)

Fields(s) == FieldsFrom(s, 1)

HexValue(c) == (CHOOSE i \in 1..16 : HexChars[i] = c) - 1

\* int(s, 16)
RECURSIVE ParseHex(_)
ParseHex(s) ==
  IF s = <<>> THEN 0
  ELSE 16 * ParseHex(SubSeq(s, 1, Len(s) - 1)) + HexValue(s[Len(s)])

Range(s) == { s[i] : i \in 1..Len(s) }

\* gen_csv has returned: the five views are printed
Rendered == pc = "done"

\* the build loop has finished
Built == (pc = "build" /\ todo = {}) \/ pc = "create_relative_csv" \/ pc = "done"

\* slots already iterated by the build loop
Processed == IF pc = "gen_csv" \/ pc = "KeyError" THEN {} ELSE DOMAIN table \ todo

\* a slot's undocumented bit, read from the raw table
Undocumented(opcode) ==
  Len(table[opcode]) = 4 /\ (table[opcode][4] \div 128) % 2 = 1

\* the slots the undocumented-opcode policy keeps
NonExcluded == { op \in DOMAIN table : allow_undocumented \/ ~Undocumented(op) }

\* the populated (mnemonic, mode) pairs of the index
Pairs == UNION { {k} \X DOMAIN d[k] : k \in DOMAIN d }

\* mnemonics with a row in the Implicit-Only view (rows after the header)
ImplicitViewMnemonics == { SplitFirst(implicit_csv[i]) : i \in 2..Len(implicit_csv) }

\* mnemonics with rows in the Full Matrix view (label rows: 2, 4, ...)
MatrixViewMnemonics ==
  { SplitFirst(main_csv[i]) : i \in { j \in 2..Len(main_csv) : j % 2 = 0 } }

\* data rows of the Full Matrix view (3, 5, ...)
MatrixDataRows == { i \in 2..Len(main_csv) : i % 2 = 1 }

\* the n record groups <<hex, cycles, bytes>> of the fields fs from field first on
GroupSeq(fs, first, n) ==
  [j \in 1..n |-> SubSeq(fs, first + 3 * (j - 1), first + 3 * j - 1)]

\* the record groups a view row carries, blank groups left out
MatrixRowGroups(row) ==
  Range(GroupSeq(Fields(row), 10, Len(order))) \ { << <<>>, <<>>, <<>> >> }

ImplicitRowGroups(row) == { SubSeq(Fields(row), 10, 12) }

ListRowGroups(row) == LET fs == Fields(row) IN { SubSeq(fs, Len(fs) - 3, Len(fs) - 1) }

\* every record group shown by the matrix, compact, implicit-only and flat list views
ViewGroups ==
  UNION ( { MatrixRowGroups(main_csv[i]) : i \in MatrixDataRows }
          \cup { MatrixRowGroups(compact_csv[i]) : i \in 2..Len(compact_csv) }
          \cup { ImplicitRowGroups(implicit_csv[i]) : i \in 2..Len(implicit_csv) }
          \cup { ListRowGroups(list_csv[i]) : i \in 1..Len(list_csv) } )

\* the opcode fields of the relative view's rows
RelativeOpcodes == { Fields(relative_csv[i])[2] : i \in 2..Len(relative_csv) }

\* the record groups of the index
IndexGroups ==
  { LET fs == Fields(d[p[1]][p[2]]) IN <<fs[1], fs[2], fs[3]>> : p \in Pairs }

(***************************************************************************)
(* C1: exclusion partition.                                                *)
(***************************************************************************)
\* the addressing modes the claim quantifies over
C1_Modes ==
  {"accumulator", "relative"} \cup Range(order)

\* mnemonics of the index with at least one mode of the catalog order
CatalogMnemonics == { k \in DOMAIN d : DOMAIN d[k] \cap Range(order) # {} }

\* C1 as stated: over tables of the listed modes, the mnemonics of the
\* Implicit-Only view and of the Full Matrix view are disjoint and together are
\* all the mnemonic keys of the index.
C1_PartitionOfAllKeys ==
  (Rendered /\ \A op \in DOMAIN table : table[op][3] \in C1_Modes)
    => /\ ImplicitViewMnemonics \cap MatrixViewMnemonics = {}
       /\ ImplicitViewMnemonics \cup MatrixViewMnemonics = DOMAIN d

\* C1 amended: the two views are disjoint and together hold exactly the
\* mnemonics that have at least one mode of the catalog order; a mnemonic whose
\* modes are all outside the order (relative only) is in neither.
C1_PartitionOfCatalogKeys ==
  Rendered
    => /\ ImplicitViewMnemonics \cap MatrixViewMnemonics = {}
       /\ ImplicitViewMnemonics \cup MatrixViewMnemonics = CatalogMnemonics

C1_Witness ==
  /\ Rendered
  /\ \E k \in DOMAIN d : DOMAIN d[k] = {"relative"}
  /\ ImplicitViewMnemonics \cup MatrixViewMnemonics # {}

(***************************************************************************)
(* C2: populated pairs against non-excluded slots.                         *)
(***************************************************************************)
\* C2 as stated: when the build loop has finished, the index holds as many
\* (mnemonic, mode) pairs as the raw table has non-excluded slots.
C2_PairsEqualSlots ==
  Built => Cardinality(Pairs) = Cardinality(NonExcluded)

(***************************************************************************)
(* C3: zero-cost entries.                                                  *)
(***************************************************************************)
\* the base cycle cost shown by a cycle field ("2", "2+")
ShownCost(field) ==
  IF field # <<>> /\ field[Len(field)] = "+" THEN SubSeq(field, 1, Len(field) - 1)
  ELSE field

\* C3 as stated: no row of any of the five views carries a record whose base
\* cycle cost is 0.
C3_NoZeroCostRow ==
  Rendered
    => /\ \A g \in ViewGroups : ShownCost(g[2]) # <<"0">>
       /\ \A o \in RelativeOpcodes : cycles[ParseHex(o) + 1] # 0

(***************************************************************************)
(* C4: undocumented-opcode policy.                                         *)
(***************************************************************************)
\* the slot a record of the index was written from, by its opcode field
SlotOf(rec) == ParseHex(SplitFirst(rec))

\* the processed slots whose entry is joined under key k and mode m
SlotsFor(k, m) ==
  { op \in Processed : upper(table[op][2]) = k
                          /\ (IF table[op][3] = "accumulator" THEN "implicit"
                              ELSE table[op][3]) = m }

\* C4: with allow_undocumented false no slot with the undocumented bit
\* contributes a record to the index or a row to a view; with it true every
\* processed slot has its (mnemonic, mode) pair written; a 3-field slot is
\* handled as documented.
C4_UndocumentedPolicy ==
  /\ \A p \in Pairs :
       /\ SlotOf(d[p[1]][p[2]]) \in SlotsFor(p[1], p[2])
       /\ ~allow_undocumented => ~Undocumented(SlotOf(d[p[1]][p[2]]))
  /\ \A op \in Processed :
       (allow_undocumented \/ Len(table[op]) = 3 \/ ~Undocumented(op))
         => \E p \in Pairs : op \in SlotsFor(p[1], p[2])
  /\ (Rendered /\ ~allow_undocumented)
       => \A g \in ViewGroups : ~Undocumented(ParseHex(g[1]))
  /\ (Rendered /\ ~allow_undocumented)
       => \A o \in RelativeOpcodes : ~Undocumented(ParseHex(o))

C4_Witness ==
  /\ Rendered
  /\ ~allow_undocumented
  /\ \E op \in DOMAIN table : Undocumented(op)
  /\ \E op \in DOMAIN table : Len(table[op]) = 3
  /\ Pairs # {}

(***************************************************************************)
(* C5: routing to the Implicit-Only view.                                  *)
(***************************************************************************)
\* C5 as stated: a mnemonic has a row in the Implicit-Only view iff implicit
\* is its only populated mode (relative counted as a mode).
C5_ImplicitIffOnlyMode ==
  Rendered
    => ImplicitViewMnemonics = { k \in DOMAIN d : DOMAIN d[k] = {"implicit"} }

\* C5 amended: a mnemonic has a row in the Implicit-Only view iff implicit is
\* its only populated mode among the modes of the catalog order; a relative
\* record (or one of a mode outside the order) beside it does not count.
C5_ImplicitIffOnlyCatalogMode ==
  Rendered
    => ImplicitViewMnemonics
         = { k \in DOMAIN d : DOMAIN d[k] \cap Range(order) = {"implicit"} }

C5_Witness ==
  /\ Rendered
  /\ \E k \in ImplicitViewMnemonics : DOMAIN d[k] = {"implicit", "relative"}

(***************************************************************************)
(* C6: the flat list.                                                      *)
(***************************************************************************)
\* the mnemonic of a flat list row: between the opening quote and the blank
ListRowMnemonic(row) ==
  LET sp == CHOOSE n \in 2..Len(row) : row[n] = " " /\ \A j \in 2..(n - 1) : row[j] # " "
  IN SubSeq(row, 2, sp - 1)

\* the quoted name of a flat list row: all but its last 12 fields
\* (8 of the status row, 3 of the record, the empty one after the last comma)
ListRowName(row) ==
  LET tail == CHOOSE n \in 1..Len(row) :
                /\ row[n] = ","
                /\ Len(Fields(SubSeq(row, n + 1, Len(row)))) = 12
  IN SubSeq(row, 1, tail - 1)

\* rows of the flat list that show the pair <<k, m>> of the index
ListRowsOf(k, m) ==
  { i \in 1..Len(list_csv) :
      /\ ListRowMnemonic(list_csv[i]) = k
      /\ ListRowGroups(list_csv[i]) = { LET fs == Fields(d[k][m]) IN <<fs[1], fs[2], fs[3]>> } }

\* C6 as stated: one row for every (mnemonic, mode) pair of the index, whatever
\* the mode, and no other row.
C6_FlatListAllPairs ==
  Rendered
    => /\ \A p \in Pairs : Cardinality(ListRowsOf(p[1], p[2])) = 1
       /\ Len(list_csv) = Cardinality(Pairs)

\* the pairs the flat list shows: modes of the catalog order, and relative
ListedPairs == { p \in Pairs : p[2] \in Range(order) \cup {"relative"} }

\* C6 amended: one row for every pair of the index whose mode is in the catalog
\* order or is relative (implicit-only mnemonics and relative entries
\* included), no row for a pair of any other mode, and no other row.
C6_FlatListCatalogAndRelativePairs ==
  Rendered
    => /\ \A p \in ListedPairs :
            /\ Cardinality(ListRowsOf(p[1], p[2])) = 1
            /\ \A i \in ListRowsOf(p[1], p[2]) :
                 ListRowName(list_csv[i])
                   = <<"\"">> \o p[1] \o <<" ">> \o operands[p[2]] \o <<"\"">>
       /\ \A p \in Pairs \ ListedPairs : ListRowsOf(p[1], p[2]) = {}
       /\ Len(list_csv) = Cardinality(ListedPairs)

C6_Witness ==
  /\ Rendered
  /\ \E p \in ListedPairs : p[2] = "relative"
  /\ \E p \in ListedPairs : DOMAIN d[p[1]] = {"implicit"}
  /\ Len(list_csv) = 2

(***************************************************************************)
(* C7, C8: the relative view.                                              *)
(***************************************************************************)
RelativeMnemonics == { k \in DOMAIN d : "relative" \in DOMAIN d[k] }

RelativeRowsOf(k) == { i \in 2..Len(relative_csv) : Fields(relative_csv[i])[1] = k }

\* C7: after the header, one row for each mnemonic with a relative record, none
\* for any other, the row's opcode field being the two hex digits of the opcode
\* of the slot the relative record was written from.
C7_RelativeRows ==
  Rendered
    => /\ relative_csv[1] = RelativeHeader
       /\ Len(relative_csv) = 1 + Cardinality(RelativeMnemonics)
       /\ \A k \in RelativeMnemonics :
            /\ Cardinality(RelativeRowsOf(k)) = 1
            /\ \A i \in RelativeRowsOf(k) :
                 LET o == Fields(relative_csv[i])[2]
                 IN /\ Len(o) = 2
                    /\ o = Fields(d[k]["relative"])[1]
                    /\ ParseHex(o) \in SlotsFor(k, "relative")
       /\ \A i \in 2..Len(relative_csv) : Fields(relative_csv[i])[1] \in RelativeMnemonics

C7_Witness ==
  /\ Rendered
  /\ Len(relative_csv) = 2
  /\ Cardinality(DOMAIN d) = 2
  /\ Fields(relative_csv[2])[1] = <<"B", "P", "L">>
  /\ Fields(relative_csv[2])[2] = <<"1", "0">>

\* C8 as stated: every row of the relative view has exactly 5 columns.
C8_FiveColumns ==
  Rendered
    => \A i \in 2..Len(relative_csv) : Len(Fields(relative_csv[i])) = 5

\* C8 amended: every row of the relative view has exactly 6 comma-separated
\* columns: the mnemonic, the opcode in hex, an empty column, and three constant
\* columns (2, 3, 4) that are the same for every row; the header has 6 too.
C8_SixColumns ==
  Rendered
    => /\ Len(Fields(relative_csv[1])) = 6
       /\ \A i \in 2..Len(relative_csv) :
            LET fs == Fields(relative_csv[i])
            IN /\ Len(fs) = 6
               /\ fs[1] \in DOMAIN d
               /\ ParseHex(fs[2]) \in DOMAIN table
               /\ fs[3] = <<>>
               /\ <<fs[4], fs[5], fs[6]>> = << <<"2">>, <<"3">>, <<"4">> >>

C8_Witness ==
  /\ Rendered
  /\ Len(relative_csv) = 2

(***************************************************************************)
(* C9: column count of the Full Matrix data rows.                          *)
(***************************************************************************)
\* the three fields a mode contributes to the data row of mnemonic k
ExpectedGroup(k, m) ==
  IF m \in DOMAIN d[k]
  THEN LET fs == Fields(d[k][m]) IN <<fs[1], fs[2], fs[3]>>
  ELSE << <<>>, <<>>, <<>> >>

\* C9: every data row of the Full Matrix view has the same number of fields
\* (the mnemonic column, 8 status columns, 3 per mode of the order and the
\* empty one after the last comma), each mode contributing exactly its three
\* fields, blank when the mnemonic does not have the mode.
C9_ColumnCount ==
  Rendered
    => \A i \in MatrixDataRows :
         LET fs == Fields(main_csv[i])
             k == SplitFirst(main_csv[i - 1])
         IN /\ Len(fs) = 10 + 3 * Len(order)
            /\ \A r \in MatrixDataRows : Len(Fields(main_csv[r])) = Len(fs)
            /\ \A j \in 1..Len(order) :
                 <<fs[7 + 3 * j], fs[8 + 3 * j], fs[9 + 3 * j]>> = ExpectedGroup(k, order[j])

C9_Witness ==
  /\ Rendered
  /\ Len(main_csv) = 5
  /\ DOMAIN d[SplitFirst(main_csv[2])] # DOMAIN d[SplitFirst(main_csv[4])]

(***************************************************************************)
(* C10: the extra-cycle marker.                                            *)
(***************************************************************************)
EndsInPlus(field) == field # <<>> /\ field[Len(field)] = "+"

\* C10: the cycle field of every record of the index ends in "+" iff
\* extra_cycles[opcode] > 0 for the record's opcode, and every view that shows
\* the record shows the same fields, so the same marker.
C10_ExtraCycleMarker ==
  /\ \A g \in IndexGroups :
       /\ ParseHex(g[1]) \in Processed
       /\ EndsInPlus(g[2]) <=> extra_cycles[ParseHex(g[1]) + 1] > 0
  /\ Rendered
       => /\ ViewGroups \subseteq IndexGroups
          /\ \A g \in ViewGroups :
               EndsInPlus(g[2]) <=> extra_cycles[ParseHex(g[1]) + 1] > 0

C10_Witness ==
  /\ Rendered
  /\ \E g \in ViewGroups : EndsInPlus(g[2])
  /\ \E g \in ViewGroups : ~EndsInPlus(g[2])

(***************************************************************************)
(* C11: the order of the output.                                           *)
(***************************************************************************)
\* the lines a view puts on the output: its rows, or one empty line when it has none
Block(rows) == IF Len(rows) = 0 THEN << <<>> >> ELSE rows

\* C11: the output is the full matrix, then the compact matrix, then the
\* implicit-only table, then the flat list, then the relative table, each block
\* whole before the next starts: after create_csv the output is exactly the first
\* four blocks in this order, after create_relative_csv the fifth follows them,
\* and before create_csv nothing is written.
C11_OutputOrder ==
  LET four == Block(main_csv) \o Block(compact_csv) \o Block(implicit_csv) \o Block(list_csv)
  IN /\ pc \in {"gen_csv", "build", "KeyError", "ValueError"} => stdout = <<>>
     /\ pc = "create_relative_csv"
          => /\ stdout = four
             /\ main_csv[1] = MatrixHeader /\ compact_csv[1] = MatrixHeader
             /\ implicit_csv[1] = ImplicitHeader
     /\ pc = "done" => stdout = four \o Block(relative_csv)

C11_Witness ==
  /\ pc = "done"
  /\ Len(main_csv) > 1 /\ Len(implicit_csv) > 1 /\ Len(list_csv) > 1
  /\ Len(stdout) = Len(main_csv) + Len(compact_csv) + Len(implicit_csv)
                     + Len(list_csv) + Len(relative_csv)

(***************************************************************************)
(* C12: unknown CPU.                                                       *)
(***************************************************************************)
\* nothing has been rendered or written
NoOutput ==
  /\ stdout = <<>>
  /\ main_csv = <<>> /\ compact_csv = <<>> /\ implicit_csv = <<>>
  /\ list_csv = <<>> /\ relative_csv = <<>>

\* C12: with a CPU identifier that has no registered opcode table or no entry
\* in address_mode_order the run never gets past the lookups: it fails with
\* KeyError, and no line of any view is written.
C12_UnknownCpuNoOutput ==
  (cpu_name \notin processors \/ cpu_name \notin address_mode_order_keys)
    => /\ pc \in {"gen_csv", "KeyError"}
       /\ NoOutput
       /\ d = <<>>

C12_Witness ==
  /\ pc = "KeyError"
  /\ cpu_name \in processors
  /\ cpu_name \notin address_mode_order_keys
  /\ NoOutput

(***************************************************************************)
(* C13: malformed raw-table entry.                                         *)
(***************************************************************************)
\* slots whose entry has neither 3 nor 4 fields
MalformedSlots == { op \in DOMAIN table : Len(table[op]) \notin {3, 4} }

\* C13: when some slot's entry has neither 3 nor 4 fields the run never reaches
\* create_csv: the build loop ends in ValueError, whatever was processed before,
\* no record is written for a malformed slot and no line of any view is
\* written; the loop fails only on such an entry.
C13_MalformedFailsFast ==
  /\ MalformedSlots # {}
       => /\ pc \in {"gen_csv", "build", "ValueError"}
          /\ NoOutput
          /\ \A p \in Pairs : SlotOf(d[p[1]][p[2]]) \notin MalformedSlots
  /\ pc = "ValueError" => MalformedSlots \cap todo # {}

C13_Witness ==
  /\ pc = "ValueError"
  /\ d # <<>>
  /\ \E op \in MalformedSlots : Len(table[op]) = 5
  /\ NoOutput

(***************************************************************************)
(* C14: Compact Matrix against Full Matrix.                                *)
(***************************************************************************)
\* C14: the Compact Matrix has one row per Full Matrix mnemonic, in the same
\* order and for no other mnemonic, and each compact row has the same number of
\* fields and the same per-mode field groups, position for position, as that
\* mnemonic's Full Matrix data row.
C14_CompactMatchesFull ==
  Rendered =>
    /\ Len(main_csv) = 2 * Len(compact_csv) - 1
    /\ \A j \in 1..(Len(compact_csv) - 1) :
         LET cf == Fields(compact_csv[j + 1])
             df == Fields(main_csv[2 * j + 1])
         IN /\ SplitFirst(compact_csv[j + 1]) = SplitFirst(main_csv[2 * j])
            /\ Len(cf) = Len(df)
            /\ GroupSeq(cf, 10, Len(order)) = GroupSeq(df, 10, Len(order))

C14_Witness ==
  /\ Rendered
  /\ Len(compact_csv) = 3
  /\ SplitFirst(compact_csv[2]) # SplitFirst(compact_csv[3])
  /\ Cardinality(MatrixRowGroups(compact_csv[2])) = 1

(***************************************************************************)
(* C15: the accumulator -> implicit alias.                                 *)
(***************************************************************************)
\* the record line 153 formats for a slot
RecordOf(op) == FormatRecord(op, num_bytes_of(table[op]))

\* no two non-excluded slots carry the same mnemonic and the same raw mode
RawPairsDistinct ==
  \A a, b \in NonExcluded :
    (upper(mnemonic_of(table[a])) = upper(mnemonic_of(table[b]))
       /\ mode_name_of(table[a]) = mode_name_of(table[b])) => a = b

\* C15: once the index is built from slots that differ in mnemonic or raw mode,
\* every non-excluded slot whose raw mode is accumulator has its record under
\* the implicit key of its mnemonic, and every other non-excluded slot of that
\* mnemonic still has its record under its own mode key.
C15_AliasKeepsEveryRecord ==
  (Built /\ RawPairsDistinct) =>
    \A op \in NonExcluded :
      mode_name_of(table[op]) = "accumulator" =>
        LET k == upper(mnemonic_of(table[op]))
        IN /\ k \in DOMAIN d
           /\ "implicit" \in DOMAIN d[k]
           /\ d[k]["implicit"] = RecordOf(op)
           /\ \A other \in NonExcluded \ {op} :
                upper(mnemonic_of(table[other])) = k
                  => LET m == MapMode(mode_name_of(table[other]))
                     IN m \in DOMAIN d[k] /\ d[k][m] = RecordOf(other)

(***************************************************************************)
(* C16: row ordering.                                                      *)
(***************************************************************************)
\* a before b in lexicographic order of code points
LexLess(a, b) ==
  \E n \in 1..Len(b) :
    /\ n <= Len(a) + 1
    /\ \A j \in 1..(n - 1) : a[j] = b[j]
    /\ n = Len(a) + 1 \/ Ord(a[n]) < Ord(b[n])

\* rows first..Len(rows), every step-th one, start with strictly ascending mnemonics
Ascending(rows, first, step) ==
  \A i \in first..(Len(rows) - step) :
    (i - first) % step = 0 => LexLess(SplitFirst(rows[i]), SplitFirst(rows[i + step]))

\* the mode a flat list row shows: the key of d under which its record is held
ListRowMode(row) ==
  LET k == ListRowMnemonic(row)
  IN CHOOSE m \in DOMAIN d[k] : {SubSeq(Fields(d[k][m]), 1, 3)} = ListRowGroups(row)

\* place of a mode in the catalog order, relative after the last one
ModeRank(m) ==
  IF m = "relative" THEN Len(order) + 1 ELSE CHOOSE n \in 1..Len(order) : order[n] = m

====
